---- MODULE Spec2Model ----
(***************************************************************************)
(* Model of wiremoons/version (src/version.ts, the revision of lines       *)
(* 1-145): the version banner of a Deno command line program.              *)
(*                                                                         *)
(* A JavaScript string is a sequence of code units.  A code unit is named  *)
(* by a TLA+ string: a printable ASCII character by itself, any other one  *)
(* by "U+XXXX".  JavaScript values are records tagged by their typeof.     *)
(* The host (Deno.mainModule, Deno.build, Deno.version, the file system    *)
(* behind Deno.lstat) is the state; the exported functions are operators   *)
(* and one action applies each of them.                                    *)
(***************************************************************************)
EXTENDS Integers, Sequences, FiniteSets, TLC

VARIABLES
    fs,          \* the file system: plain path -> what Deno.lstat finds there
    mainModule,  \* Deno.mainModule
    build,       \* Deno.build.os, Deno.build.arch, cores, Deno.version.deno
    last,        \* the last call made: its arguments, outcome and service calls
    remembered   \* an earlier getFileModTime call, forgotten when fs changes

vars == <<fs, mainModule, build, last, remembered>>

----------------------------------------------------------------------------
(* Strings *)

\* String.prototype.startsWith
StartsWith(s, p) ==
    /\ Len(s) >= Len(p)
    /\ SubSeq(s, 1, Len(p)) = p

\* String.prototype.charAt: the empty string when the index is out of range
charAt(s, i) ==
    IF i + 1 \in 1..Len(s) THEN <<s[i + 1]>> ELSE << >>

\* String.prototype.substring(start)
substring(s, start) ==
    IF start >= Len(s) THEN << >> ELSE SubSeq(s, start + 1, Len(s))

IndexOf(seq, c) ==
    CHOOSE i \in 1..Len(seq) : seq[i] = c

Contains(seq, c) ==
    \E i \in 1..Len(seq) : seq[i] = c

LowerLetters ==
    <<"a","b","c","d","e","f","g","h","i","j","k","l","m",
      "n","o","p","q","r","s","t","u","v","w","x","y","z">>

UpperLetters ==
    <<"A","B","C","D","E","F","G","H","I","J","K","L","M",
      "N","O","P","Q","R","S","T","U","V","W","X","Y","Z">>

\* The code units the model upper-cases: printable ASCII, U+00DF (sharp s)
\* and a lone high surrogate.
SharpS == "U+00DF"

HighSurrogate == "U+D83D"

\* String.prototype.toUpperCase of a string of one code unit.  It uses the
\* full Unicode case mapping: U+00DF becomes the two code units "SS"; a lone
\* surrogate and every code unit that is no lower-case letter stay as they are.
toUpperCase1(c) ==
    IF Contains(LowerLetters, c) THEN <<UpperLetters[IndexOf(LowerLetters, c)]>>
    ELSE IF c = SharpS THEN <<"S", "S">>
    ELSE <<c>>

\* String.prototype.toUpperCase, code unit by code unit
RECURSIVE toUpperCase(_)
toUpperCase(s) ==
    IF s = << >> THEN << >> ELSE toUpperCase1(Head(s)) \o toUpperCase(Tail(s))

----------------------------------------------------------------------------
(* JavaScript values *)

JsString(s) == [t |-> "string", s |-> s]

JsNumber(n) == [t |-> "number", n |-> n]

JsBoolean(b) == [t |-> "boolean", b |-> b]

JsUndefined == [t |-> "undefined"]

JsNull == [t |-> "null"]

\* an object: a function from its own property names to their values
JsObject(fields) == [t |-> "object", fields |-> fields]

\* version.ts: isString
isString(arg) ==
    arg.t = "string"

toTitleCaseFirstWhole(str) ==
    IF ~isString(str) \/ Len(str.s) = 0 THEN str
    ELSE JsString(toUpperCase(str.s))

\* version.ts: toTitleCaseFirst
toTitleCaseFirst(str) ==
    IF ~isString(str) \/ Len(str.s) = 0 THEN str
    ELSE JsString(toUpperCase(charAt(str.s, 0)) \o substring(str.s, 1))

----------------------------------------------------------------------------
(* Code units and percent-decoding *)

\* the printable ASCII characters, U+0020 to U+007E (the grave accent, which
\* a TLA+ string cannot hold, by its name)
Ascii ==
    <<" ","!","\"","#","$","%","&","'","(",")","*","+",",","-",".","/","0",
      "1","2","3","4","5","6","7","8","9",":",";","<","=",">","?","@","A","B",
      "C","D","E","F","G","H","I","J","K","L","M","N","O","P","Q","R","S","T",
      "U","V","W","X","Y","Z","[","\\","]","^","_","U+0060","a","b","c","d","e",
      "f","g","h","i","j","k","l","m","n","o","p","q","r","s","t","u","v","w",
      "x","y","z","{","|","}","~">>

HexDigits ==
    <<"0","1","2","3","4","5","6","7","8","9","A","B","C","D","E","F">>

LowerHexDigits ==
    <<"0","1","2","3","4","5","6","7","8","9","a","b","c","d","e","f">>

IsHex(c) ==
    Contains(HexDigits, c) \/ Contains(LowerHexDigits, c)

HexVal(c) ==
    IF Contains(HexDigits, c) THEN IndexOf(HexDigits, c) - 1
    ELSE IndexOf(LowerHexDigits, c) - 1

Hex4(n) ==
    HexDigits[((n \div 4096) % 16) + 1] \o HexDigits[((n \div 256) % 16) + 1]
        \o HexDigits[((n \div 16) % 16) + 1] \o HexDigits[(n % 16) + 1]

\* the name of UTF-16 code unit n
CodeUnit(n) ==
    IF n \in 32..126 THEN Ascii[n - 31]
    ELSE IF n = 10 THEN "\n"
    ELSE "U+" \o Hex4(n)

\* the UTF-16 encoding of code point cp
Utf16(cp) ==
    IF cp < 65536 THEN <<CodeUnit(cp)>>
    ELSE <<CodeUnit(55296 + ((cp - 65536) \div 1024)),
           CodeUnit(56320 + ((cp - 65536) % 1024))>>

\* s holds a %XX escape at position i
IsEscape(s, i) ==
    /\ i + 2 <= Len(s)
    /\ s[i] = "%"
    /\ IsHex(s[i + 1])
    /\ IsHex(s[i + 2])

EscapeByte(s, i) ==
    16 * HexVal(s[i + 1]) + HexVal(s[i + 2])

\* the number of bytes of the UTF-8 sequence that byte b leads; 0 when b
\* cannot lead one
Utf8Length(b) ==
    IF b < 128 THEN 1
    ELSE IF b \in 192..223 THEN 2
    ELSE IF b \in 224..239 THEN 3
    ELSE IF b \in 240..247 THEN 4
    ELSE 0

\* The code point of the n escapes at position i of s, or -1 when they are
\* not the UTF-8 encoding of a code point.
Utf8CodePoint(s, i, n) ==
    LET b(j) == EscapeByte(s, i + 3 * j)
        cont(j) == b(j) - 128
        escapes == \A j \in 0..(n - 1) : IsEscape(s, i + 3 * j)
        conts == \A j \in 1..(n - 1) : b(j) \in 128..191
        cp == IF n = 1 THEN b(0)
              ELSE IF n = 2 THEN (b(0) - 192) * 64 + cont(1)
              ELSE IF n = 3 THEN (b(0) - 224) * 4096 + cont(1) * 64 + cont(2)
              ELSE (b(0) - 240) * 262144 + cont(1) * 4096 + cont(2) * 64 + cont(3)
        wellFormed == IF n = 1 THEN TRUE
                      ELSE IF n = 2 THEN cp >= 128
                      ELSE IF n = 3 THEN cp >= 2048 /\ cp \notin 55296..57343
                      ELSE cp \in 65536..1114111
    IN  IF n \in 1..4 /\ escapes /\ conts /\ wellFormed THEN cp ELSE -1

Returned(v) == [threw |-> FALSE, value |-> v]

Threw(e) == [threw |-> TRUE, error |-> e]

\* an Error object (err instanceof Error holds)
JsError(name, message) ==
    [t |-> "object", isError |-> TRUE, name |-> name, message |-> message]

MsgUriMalformed ==
    <<"U","R","I"," ","m","a","l","f","o","r","m","e","d">>

\* decodeURIComponent from position i on, `done` being the decoded part so
\* far: every %XX run must be the UTF-8 encoding of a code point, else
\* URIError is thrown
RECURSIVE DecodeFrom(_, _, _)
DecodeFrom(s, i, done) ==
    IF i > Len(s) THEN Returned(done)
    ELSE IF s[i] # "%" THEN DecodeFrom(s, i + 1, Append(done, s[i]))
    ELSE IF ~IsEscape(s, i) THEN Threw(JsError("URIError", MsgUriMalformed))
    ELSE IF Utf8CodePoint(s, i, Utf8Length(EscapeByte(s, i))) < 0
    THEN Threw(JsError("URIError", MsgUriMalformed))
    ELSE DecodeFrom(s, i + 3 * Utf8Length(EscapeByte(s, i)),
                    done \o Utf16(Utf8CodePoint(s, i, Utf8Length(EscapeByte(s, i)))))

decodeURIComponent(s) ==
    DecodeFrom(s, 1, << >>)

\* String.prototype.replace(/%(?![0-9A-Fa-f]{2})/g, "%25"), from position i on
RECURSIVE EscapeStrayPercent(_, _)
EscapeStrayPercent(s, i) ==
    IF i > Len(s) THEN << >>
    ELSE IF s[i] = "%" /\ ~IsEscape(s, i)
         THEN <<"%", "2", "5">> \o EscapeStrayPercent(s, i + 1)
         ELSE <<s[i]>> \o EscapeStrayPercent(s, i + 1)

----------------------------------------------------------------------------
(* File URLs and paths *)

HttpsScheme ==
    <<"h","t","t","p","s",":","/","/">>

HttpScheme ==
    <<"h","t","t","p",":","/","/">>

FileScheme ==
    <<"f","i","l","e",":">>

\* the position of the first "/" of s at or after i, or Len(s) + 1
RECURSIVE SlashFrom(_, _)
SlashFrom(s, i) ==
    IF i > Len(s) \/ s[i] = "/" THEN i ELSE SlashFrom(s, i + 1)

\* new URL(url).pathname of a string that starts with "file:".  After the
\* scheme comes "//" and a host that ends at the next "/", or the path at
\* once; a path without a leading "/" gets one.  The URLs of the model hold
\* a host of letters or none, and no "?", "#", "\" or dot segment.
UrlPathname(url) ==
    LET rest == substring(url, Len(FileScheme))
        afterHost == SlashFrom(rest, 3)
    IN  IF StartsWith(rest, <<"/", "/">>)
        THEN IF afterHost > Len(rest) THEN <<"/">>
             ELSE SubSeq(rest, afterHost, Len(rest))
        ELSE IF StartsWith(rest, <<"/">>) THEN rest
        ELSE <<"/">> \o rest

fromFileUrlPrefixOnly(url) ==
    Returned(UrlPathname(url))

\* jsr:@std/path fromFileUrl on a POSIX build: the URL's pathname, its stray
\* "%" escaped and then percent-decoded; the host is dropped
fromFileUrl(url) ==
    decodeURIComponent(EscapeStrayPercent(UrlPathname(url), 1))

\* the end of s without its trailing "/"s (0 when s holds nothing else)
RECURSIVE LastNonSlash(_, _)
LastNonSlash(s, i) ==
    IF i = 0 \/ s[i] # "/" THEN i ELSE LastNonSlash(s, i - 1)

\* the position after the last "/" of s before position i (1 when none)
RECURSIVE SegmentStart(_, _)
SegmentStart(s, i) ==
    IF i = 0 \/ s[i] = "/" THEN i + 1 ELSE SegmentStart(s, i - 1)

\* jsr:@std/path basename on a POSIX build: the last segment of the path,
\* trailing separators dropped; a path of separators only gives "/"
basename(path) ==
    LET end == LastNonSlash(path, Len(path))
    IN  IF Len(path) = 0 THEN << >>
        ELSE IF end = 0 THEN <<"/">>
        ELSE SubSeq(path, SegmentStart(path, end), end)

----------------------------------------------------------------------------
(* Dates *)

\* a Date: milliseconds since the epoch, as whole seconds and the rest
JsDate(sec, ms) == [t |-> "Date", sec |-> sec, ms |-> ms]

DayNames ==
    << <<"S","u","n">>, <<"M","o","n">>, <<"T","u","e">>, <<"W","e","d">>,
       <<"T","h","u">>, <<"F","r","i">>, <<"S","a","t">> >>

MonthNames ==
    << <<"J","a","n">>, <<"F","e","b">>, <<"M","a","r">>, <<"A","p","r">>,
       <<"M","a","y">>, <<"J","u","n">>, <<"J","u","l">>, <<"A","u","g">>,
       <<"S","e","p">>, <<"O","c","t">>, <<"N","o","v">>, <<"D","e","c">> >>

Digit(n) == CodeUnit(48 + n)

Pad2(n) == <<Digit((n \div 10) % 10), Digit(n % 10)>>

Pad4(n) == Pad2(n \div 100) \o Pad2(n % 100)

\* the civil date of day number `days` (days since 1970-01-01), days >= 0
CivilFromDays(days) ==
    LET z == days + 719468
        era == z \div 146097
        doe == z - era * 146097
        yoe == (doe - doe \div 1460 + doe \div 36524 - doe \div 146096) \div 365
        doy == doe - (365 * yoe + yoe \div 4 - yoe \div 100)
        mp == (5 * doy + 2) \div 153
        m == IF mp < 10 THEN mp + 3 ELSE mp - 9
    IN  [year |-> yoe + era * 400 + (IF m <= 2 THEN 1 ELSE 0),
         month |-> m,
         day |-> doy - (153 * mp + 2) \div 5 + 1]

\* Date.prototype.toUTCString: "Www, DD Mmm YYYY HH:MM:SS GMT"; the
\* milliseconds are dropped
toUTCString(date) ==
    LET days == date.sec \div 86400
        secs == date.sec % 86400
        civil == CivilFromDays(days)
    IN  DayNames[((days + 4) % 7) + 1] \o <<",", " ">>
            \o Pad2(civil.day) \o <<" ">>
            \o MonthNames[civil.month] \o <<" ">>
            \o Pad4(civil.year) \o <<" ">>
            \o Pad2(secs \div 3600) \o <<":">>
            \o Pad2((secs \div 60) % 60) \o <<":">>
            \o Pad2(secs % 60)
            \o <<" ","G","M","T">>

----------------------------------------------------------------------------
(* The file system behind Deno.lstat *)

Missing == [kind |-> "missing"]

Denied == [kind |-> "denied"]

\* an entry whose status carries modification time mtime (a Date or null)
Entry(mtime) == [kind |-> "entry", mtime |-> mtime]

\* Deno.lstat(path): the entry's FileInfo, or a thrown error when there is
\* no entry at path or it may not be read
lstat(fsys, path) ==
    IF path \in DOMAIN fsys /\ fsys[path].kind = "entry"
    THEN Returned([mtime |-> fsys[path].mtime])
    ELSE Threw(JsError(IF path \in DOMAIN fsys /\ fsys[path].kind = "denied"
                       THEN "PermissionDenied" ELSE "NotFound", << >>))

\* the truthiness of a value that is an object or null
IsTruthy(v) ==
    v.t \notin {"null", "undefined"}

----------------------------------------------------------------------------
(* version.ts: getFileModTime *)

MsgNoFilePath ==
    <<"U","N","K","N","O","W","N"," ","a","s"," ","n","o"," ","f","i","l","e"," ","p","a","t","h",
      " ","a","v","a","i","l","a","b","l","e",".">>

MsgRemote ==
    <<"U","N","K","N","O","W","N"," ","d","u","e"," ","t","o"," ","r","e","m","o","t","e"," ","e",
      "x","e","c","u","t","i","o","n",".">>

MsgNoModTime ==
    <<"U","N","K","N","O","W","N"," ","n","o"," ","f","i","l","e"," ","m","o","d","i","f","i","c",
      "a","t","i","o","n"," ","t","i","m","e"," ","a","v","a","i","l","a","b","l","e",".">>

MsgLstatFailedFor ==
    <<"U","N","K","N","O","W","N"," ","D","e","n","o",".","l","s","t","a","t"," ","f","a","i","l",
      "e","d"," ","f","o","r"," ">>

MsgUnspecified ==
    <<"U","N","K","N","O","W","N"," ","u","n","s","p","e","c","i","f","i","e","d"," ","e","r","r",
      "o","r",".">>

Resolved(v) == [kind |-> "resolved", value |-> v]

Rejected(reason) == [kind |-> "rejected", reason |-> reason]

\* a call of a host service, as the call log records it
Call(service, arg) == [service |-> service, arg |-> arg]

\* what a call of getFileModTime ends with, and the service calls it made
Ended(outcome, calls) == [outcome |-> outcome, calls |-> calls]

\* new Error(message)
NewError(message) == JsError("Error", message)

StatModTimeUncaught(path, fsys, calls) ==
    LET status == lstat(fsys, path)
        made == Append(calls, Call("Deno.lstat", path))
    IN  IF status.threw
        THEN Ended(Rejected(status.error), made)
        ELSE IF IsTruthy(status.value.mtime)
        THEN Ended(Resolved(toUTCString(status.value.mtime)), made)
        ELSE Ended(Resolved(MsgNoModTime), made)

\* the try block of getFileModTime: the status lookup of the path (after its
\* conversion), the lookup's exception caught and replaced
StatModTime(path, fsys, calls) ==
    LET status == lstat(fsys, path)
        made == Append(calls, Call("Deno.lstat", path))
    IN  IF status.threw
        THEN Ended(Rejected(NewError(MsgLstatFailedFor \o path)), made)
        ELSE IF IsTruthy(status.value.mtime)
        THEN Ended(Resolved(toUTCString(status.value.mtime)), made)
        ELSE Ended(Resolved(MsgNoModTime), made)

getFileModTimeNoRemoteGuard(filePath, fsys) ==
    LET isFileUrl == StartsWith(filePath, FileScheme)
        converted == IF isFileUrl THEN fromFileUrl(filePath) ELSE Returned(filePath)
        calls == IF isFileUrl THEN <<Call("fromFileUrl", filePath)>> ELSE << >>
    IN  IF Len(filePath) < 1
        THEN Ended(Rejected(NewError(MsgNoFilePath)), << >>)
        ELSE IF converted.threw THEN Ended(Rejected(converted.error), calls)
        ELSE StatModTime(converted.value, fsys, calls)

\* getFileModTime(filePath), an async function: a value it returns resolves
\* its promise, an exception it lets escape rejects it
getFileModTime(filePath, fsys) ==
    LET isFileUrl == StartsWith(filePath, FileScheme)
        converted == IF isFileUrl THEN fromFileUrl(filePath) ELSE Returned(filePath)
        calls == IF isFileUrl THEN <<Call("fromFileUrl", filePath)>> ELSE << >>
    IN  IF Len(filePath) < 1
        THEN Ended(Rejected(NewError(MsgNoFilePath)), << >>)
        ELSE IF StartsWith(filePath, HttpsScheme) \/ StartsWith(filePath, HttpScheme)
        THEN Ended(Rejected(NewError(MsgRemote)), << >>)
        ELSE IF converted.threw THEN Ended(Rejected(converted.error), calls)
        ELSE StatModTime(converted.value, fsys, calls)

----------------------------------------------------------------------------
(* version.ts: version *)

DefaultVersion ==
    <<"0",".","0",".","1"," ","[","D","E","F","A","U","L","T","]">>

DefaultCopyrightName ==
    <<"D","e","n","o"," ","D","i","n","o","s","a","u","r"," ","<","d","e","n","o","@","d","e","n",
      "o",".","l","a","n","d",">"," ","[","D","E","F","A","U","L","T","]">>

DefaultLicenseUrl ==
    <<"h","t","t","p","s",":","/","/","g","i","t","h","u","b",".","c","o","m","/","<","u","s","e",
      "r","n","a","m","e","_","h","e","r","e",">","/"," ","[","D","E","F","A","U","L","T","]">>

DefaultCrYear ==
    <<"2","0","2","1"," ","[","D","E","F","A","U","L","T","]">>

TplApplication ==
    <<"\n"," ","A","p","p","l","i","c","a","t","i","o","n"," ","'">>

TplIsVersion ==
    <<"'"," ","i","s"," ","v","e","r","s","i","o","n"," ","'">>

TplLastModified ==
    <<"'",".","\n"," ","L","a","s","t"," ","m","o","d","i","f","i","e","d"," ","o","n",":"," ">>

TplRunning ==
    <<"\n"," ","R","u","n","n","i","n","g"," ","D","e","n","o"," ","v","e","r","s","i","o","n"," ",
      "'">>

TplOn ==
    <<"'"," ","o","n"," ","'">>

TplOpenBracket ==
    <<" ","[">>

TplWith ==
    <<" ","w","i","t","h"," ">>

TplCopyright ==
    <<" ","C","P","U"," ","c","o","r","e","s","]","'",".","\n"," ","C","o","p","y","r","i","g","h",
      "t"," ","(","c",")"," ">>

TplSpace ==
    <<" ">>

TplLicenses ==
    <<".","\n","\n"," ","F","o","r"," ","l","i","c","e","n","s","e","s"," ","a","n","d"," ","f","u",
      "r","t","h","e","r"," ","i","n","f","o","r","m","a","t","i","o","n"," ","v","i","s","i",
      "t",":","\n"," "," "," ","-"," ">>

TplNextItem ==
    <<"\n"," "," "," ","-"," ">>

DenoLandUrl ==
    <<"h","t","t","p","s",":","/","/","d","e","n","o",".","l","a","n","d","/">>

TplEnd ==
    <<"\n"," "," "," ">>

\* the decimal digits of a number n >= 0, as a template literal prints it
RECURSIVE NumberToString(_)
NumberToString(n) ==
    IF n < 10 THEN <<Digit(n)>> ELSE NumberToString(n \div 10) \o <<Digit(n % 10)>>

\* a ?? b
NullishCoalesce(a, b) ==
    IF a.t \in {"undefined", "null"} THEN b ELSE a

\* obj[key]: undefined when obj has no such property
GetProperty(obj, key) ==
    IF key \in DOMAIN obj.fields THEN obj.fields[key] ELSE JsUndefined

DestructureFalsyDefault(obj, key, default) ==
    LET v == GetProperty(obj, key)
    IN  IF v.t = "undefined" \/ v = JsString(<< >>) THEN JsString(default) ELSE v

\* const { key = default } = obj: the default stands in for undefined only
Destructure(obj, key, default) ==
    LET v == GetProperty(obj, key)
    IN  IF v.t = "undefined" THEN JsString(default) ELSE v

\* err instanceof Error
InstanceOfError(v) ==
    /\ v.t = "object"
    /\ "isError" \in DOMAIN v
    /\ v.isError

BannerYearLast(name, ver, fileModTime, deno, os, arch, cores, crYear, copyrightName, licenseUrl) ==
    TplApplication \o name \o TplIsVersion \o ver
        \o TplLastModified \o fileModTime
        \o TplRunning \o deno \o TplOn \o os
        \o TplOpenBracket \o arch \o TplWith \o cores
        \o TplCopyright \o copyrightName \o TplSpace \o crYear
        \o TplLicenses \o licenseUrl
        \o TplNextItem \o DenoLandUrl \o TplEnd

\* the template literal of lines 112-123
Banner(name, ver, fileModTime, deno, os, arch, cores, crYear, copyrightName, licenseUrl) ==
    TplApplication \o name \o TplIsVersion \o ver
        \o TplLastModified \o fileModTime
        \o TplRunning \o deno \o TplOn \o os
        \o TplOpenBracket \o arch \o TplWith \o cores
        \o TplCopyright \o crYear \o TplSpace \o copyrightName
        \o TplLicenses \o licenseUrl
        \o TplNextItem \o DenoLandUrl \o TplEnd

\* what a call of version ends with: its promise's outcome, how the
\* getFileModTime it awaited ended, the service calls made, and the values
\* of its four destructured constants
VersionEnded(outcome, mod, locals) ==
    [outcome |-> outcome, mod |-> mod.outcome, calls |-> mod.calls,
     locals |-> locals]

versionUncaught(verData, host) ==
    LET options == NullishCoalesce(verData, JsObject(<< >>))
        locals == [version |-> Destructure(options, "version", DefaultVersion).s,
                   copyrightName |->
                       Destructure(options, "copyrightName", DefaultCopyrightName).s,
                   licenseUrl |->
                       Destructure(options, "licenseUrl", DefaultLicenseUrl).s,
                   crYear |-> Destructure(options, "crYear", DefaultCrYear).s]
        mod == getFileModTime(host.mainModule, host.fs)
    IN  IF mod.outcome.kind = "rejected"
        THEN VersionEnded(Rejected(mod.outcome.reason), mod, locals)
        ELSE VersionEnded(
                 Resolved(Banner(basename(host.mainModule), locals.version,
                     mod.outcome.value, host.build.deno,
                     toTitleCaseFirst(JsString(host.build.os)).s,
                     host.build.arch, NumberToString(host.build.cores),
                     locals.crYear, locals.copyrightName, locals.licenseUrl)),
                 mod, locals)

\* version(verData), an async function, on a host: its main module, its
\* build and its file system
version(verData, host) ==
    LET options == NullishCoalesce(verData, JsObject(<< >>))
        locals == [version |-> Destructure(options, "version", DefaultVersion).s,
                   copyrightName |->
                       Destructure(options, "copyrightName", DefaultCopyrightName).s,
                   licenseUrl |->
                       Destructure(options, "licenseUrl", DefaultLicenseUrl).s,
                   crYear |-> Destructure(options, "crYear", DefaultCrYear).s]
        mod == getFileModTime(host.mainModule, host.fs)
        fileModTime ==
            IF mod.outcome.kind = "resolved" THEN mod.outcome.value
            ELSE IF InstanceOfError(mod.outcome.reason)
            THEN mod.outcome.reason.message
            ELSE MsgUnspecified
    IN  VersionEnded(
            Resolved(Banner(basename(host.mainModule), locals.version,
                fileModTime, host.build.deno,
                toTitleCaseFirst(JsString(host.build.os)).s,
                host.build.arch, NumberToString(host.build.cores),
                locals.crYear, locals.copyrightName, locals.licenseUrl)),
            mod, locals)

----------------------------------------------------------------------------
(* The hosts and the inputs of the model *)

PathMain ==
    <<"/","m",".","t","s">>
PathOdd ==
    <<"/","a"," ","b","%">>
UrlMain ==
    <<"f","i","l","e",":","/","/","/","m",".","t","s">>
UrlOdd ==
    <<"f","i","l","e",":","/","/","/","a","%","2","0","b","%","2","5">>
UrlLocalhost ==
    <<"f","i","l","e",":","/","/","l","o","c","a","l","h","o","s","t","/","m",".","t","s">>
UrlNoSlashes ==
    <<"f","i","l","e",":","m",".","t","s">>
UrlStrayPercent ==
    <<"f","i","l","e",":","/","/","/","a","%","2","0","b","%">>
UrlBadUtf8 ==
    <<"f","i","l","e",":","/","/","/","%","F","F","/","m",".","t","s">>
UrlSharpS ==
    <<"f","i","l","e",":","/","/","/","%","C","3","%","9","F">>
UrlHttps ==
    <<"h","t","t","p","s",":","/","/","h","/","m",".","t","s">>
UrlHttp ==
    <<"h","t","t","p",":","/","/","h","/","m",".","t","s">>
UrlUpperHttp ==
    <<"H","T","T","P",":","/","/","h","/","m",".","t","s">>
PathRelative ==
    <<".","/","m",".","t","s">>
PathGone ==
    <<"/","g","o","n","e">>
CustomVersion ==
    <<"1",".","0",".","6">>
CustomCopyrightName ==
    <<"J","o","h","n"," ","D","o","e"," ","<","e","x","a","m","p","l","e",".","c","o","m",">">>
CustomLicenseUrl ==
    <<"h","t","t","p","s",":","/","/","g","i","t","h","u","b",".","c","o","m","/","e","x","a","m",
      "p","l","e","/","m","y","_","a","p","p","l","i","c","a","t","i","o","n","/">>
CustomCrYear ==
    <<"2","0","2","2">>
DenoVersion ==
    <<"2",".","4",".","5">>

OsLinux ==
    <<"l","i","n","u","x">>

OsDarwin ==
    <<"d","a","r","w","i","n">>

ArchX86 ==
    <<"x","8","6","_","6","4">>

ArchArm ==
    <<"a","a","r","c","h","6","4">>

\* Deno.build, navigator.hardwareConcurrency and Deno.version.deno of two
\* POSIX hosts
LinuxBuild ==
    [os |-> OsLinux, arch |-> ArchX86, cores |-> 4, deno |-> DenoVersion]

DarwinBuild ==
    [os |-> OsDarwin, arch |-> ArchArm, cores |-> 14, deno |-> DenoVersion]

Builds ==
    {LinuxBuild, DarwinBuild}

\* the paths of the file system that may hold an entry
FsPaths ==
    {PathMain, PathOdd}

\* Mon, 25 Aug 2025 13:18:17 GMT and Tue, 29 Feb 2000 00:00:00 GMT (and
\* 0.999 s)
MTimes ==
    {JsDate(1756127897, 0), JsDate(951782400, 999)}

\* what Deno.lstat may find at a path: nothing, a refusal (permission
\* denied), an entry without a modification time, an entry with one
Statuses ==
    {Missing, Denied, Entry(JsNull)} \cup {Entry(d) : d \in MTimes}

FsStates ==
    [FsPaths -> Statuses]

\* the file systems version runs on: the same status at every path
UniformFsStates ==
    {[p \in FsPaths |-> status] : status \in Statuses}

\* Deno.mainModule: a local module (a file URL), a remote one, none, and a
\* local module in a directory whose name is the byte 0xFF (no UTF-8)
MainModules ==
    {UrlMain, UrlOdd, UrlHttps, UrlHttp, << >>, UrlBadUtf8}

\* the file paths getFileModTime is called with
PathInputs ==
    {<< >>, UrlHttps, UrlHttp, UrlUpperHttp, UrlMain, UrlOdd, UrlLocalhost,
     UrlNoSlashes, UrlStrayPercent, UrlBadUtf8, UrlSharpS, PathMain, PathOdd,
     PathRelative, PathGone}

OptionKeys ==
    {"version", "copyrightName", "licenseUrl", "crYear"}

CustomOption ==
    [version |-> CustomVersion, copyrightName |-> CustomCopyrightName,
     licenseUrl |-> CustomLicenseUrl, crYear |-> CustomCrYear]

DefaultOption ==
    [version |-> DefaultVersion, copyrightName |-> DefaultCopyrightName,
     licenseUrl |-> DefaultLicenseUrl, crYear |-> DefaultCrYear]

\* the values a property of the options object may hold: a string (the empty
\* one too) or, as Partial<VersionOptions> allows, undefined
OptionValues(key) ==
    {JsUndefined, JsString(<< >>), JsString(CustomOption[key])}

\* the options objects: every subset of the four properties, each with every
\* value it may hold
OptionObjects ==
    UNION {{JsObject(f) : f \in {g \in [keys -> UNION {OptionValues(k) : k \in keys}] :
                                     \A k \in keys : g[k] \in OptionValues(k)}} :
           keys \in SUBSET OptionKeys}

\* the arguments of version: no argument, null, or an options object
VerDataInputs ==
    {JsUndefined, JsNull} \cup OptionObjects

\* The longest string toTitleCaseFirst is called with
MaxLen == 3

TitleAlphabet ==
    {"d", "D", "1", SharpS, HighSurrogate}

TitleInputs ==
    {JsString(s) : s \in UNION {[1..n -> TitleAlphabet] : n \in 0..MaxLen}}
        \cup {JsString(OsLinux), JsString(OsDarwin), JsNumber(42), JsBoolean(TRUE),
              JsUndefined, JsNull, JsObject(<< >>)}

----------------------------------------------------------------------------
(* The state machine *)

NoCall == [op |-> "none"]

NotRemembered == [set |-> FALSE]

Host == [mainModule |-> mainModule, build |-> build, fs |-> fs]

FsAfterLookupTouched(fsys, filePath) ==
    [p \in DOMAIN fsys |->
        IF fsys[p].kind = "entry" THEN Entry(JsDate(0, 0)) ELSE fsys[p]]

\* the file system after getFileModTime(filePath): the function calls
\* Deno.lstat only, which reads
FsAfterLookup(fsys, filePath) ==
    fsys

\* a call of getFileModTime(filePath), made when no result is waiting for
\* the caller.  `repeat` says that the remembered call was of the same path.
\* Any call may become the remembered one.
GetFileModTimeCall(filePath) ==
    LET ended == getFileModTime(filePath, fs)
    IN  /\ last = NoCall
        /\ last' = [op |-> "getFileModTime", arg |-> filePath,
                    outcome |-> ended.outcome, calls |-> ended.calls,
                    repeat |-> remembered.set /\ remembered.arg = filePath]
        /\ fs' = FsAfterLookup(fs, filePath)
        /\ remembered' \in {remembered,
                            [set |-> TRUE, arg |-> filePath,
                             outcome |-> ended.outcome]}
        /\ UNCHANGED <<mainModule, build>>

\* between two calls the environment changes what is at a path (a file is
\* written, removed, created, protected)
Touch(path, status) ==
    /\ last = NoCall
    /\ fs[path] # status
    /\ fs' = [fs EXCEPT ![path] = status]
    /\ remembered' = NotRemembered
    /\ UNCHANGED <<mainModule, build, last>>

\* the caller takes the result of the call it awaited
Return ==
    /\ last # NoCall
    /\ last' = NoCall
    /\ UNCHANGED <<fs, mainModule, build, remembered>>

\* a call of version(verData)
VersionCall(verData) ==
    LET ended == version(verData, Host)
    IN  /\ last = NoCall
        /\ last' = [op |-> "version", arg |-> verData,
                    outcome |-> ended.outcome, mod |-> ended.mod,
                    calls |-> ended.calls, locals |-> ended.locals]
        /\ fs' = FsAfterLookup(fs, mainModule)
        /\ UNCHANGED <<mainModule, build, remembered>>

\* a call of toTitleCaseFirst(str)
TitleCall(str) ==
    /\ last = NoCall
    /\ last' = [op |-> "toTitleCaseFirst", arg |-> str,
                result |-> toTitleCaseFirst(str)]
    /\ UNCHANGED <<fs, mainModule, build, remembered>>

\* getFileModTime on a changing file system
Init ==
    /\ fs \in FsStates
    /\ mainModule = UrlMain
    /\ build = LinuxBuild
    /\ last = NoCall
    /\ remembered = NotRemembered

Next ==
    \/ \E filePath \in PathInputs : GetFileModTimeCall(filePath)
    \/ \E path \in FsPaths, status \in Statuses : Touch(path, status)
    \/ Return

Spec == Init /\ [][Next]_vars

\* version on every host
InitVersion ==
    /\ fs \in UniformFsStates
    /\ mainModule \in MainModules
    /\ build \in Builds
    /\ last = NoCall
    /\ remembered = NotRemembered

NextVersion ==
    \/ \E verData \in VerDataInputs : VersionCall(verData)
    \/ Return

SpecVersion == InitVersion /\ [][NextVersion]_vars

\* toTitleCaseFirst on every input
InitTitle ==
    /\ fs = [p \in FsPaths |-> Missing]
    /\ mainModule = UrlMain
    /\ build = LinuxBuild
    /\ last = NoCall
    /\ remembered = NotRemembered

NextTitle ==
    \/ \E str \in TitleInputs : TitleCall(str)
    \/ Return

SpecTitle == InitTitle /\ [][NextTitle]_vars

----------------------------------------------------------------------------
(* Properties *)

IsGetFileModTime == last.op = "getFileModTime"

IsVersion == last.op = "version"

IsTitle == last.op = "toTitleCaseFirst"

\* the call's last service call was the status lookup
LookedUp == Len(last.calls) > 0 /\ last.calls[Len(last.calls)].service = "Deno.lstat"

\* the path the status lookup was made on
LookupPath == last.calls[Len(last.calls)].arg

IsRemote(path) == StartsWith(path, HttpsScheme) \/ StartsWith(path, HttpScheme)

Unknown ==
    <<"U","N","K","N","O","W","N">>

\* sub occurs in s
IsInfix(sub, s) ==
    \E i \in 0..(Len(s) - Len(sub)) : SubSeq(s, i + 1, i + Len(sub)) = sub

\* the file URL of an absolute POSIX path, as jsr:@std/path toFileUrl writes
\* it: "%" and the space percent-encoded
RECURSIVE PercentEncode(_)
PercentEncode(p) ==
    IF p = << >> THEN << >>
    ELSE (IF Head(p) = "%" THEN <<"%", "2", "5">>
          ELSE IF Head(p) = " " THEN <<"%", "2", "0">>
          ELSE <<Head(p)>>) \o PercentEncode(Tail(p))

ToFileUrl(p) == FileScheme \o <<"/", "/">> \o PercentEncode(p)

\* the position of the first line break of s at or after i, or Len(s) + 1
RECURSIVE LineEnd(_, _)
LineEnd(s, i) ==
    IF i > Len(s) \/ s[i] = "\n" THEN i ELSE LineEnd(s, i + 1)

\* what the banner shows after "Last modified on: ", up to the line's end
ShownModTime ==
    LET banner == last.outcome.value
        start == Len(TplApplication \o basename(mainModule) \o TplIsVersion
                     \o last.locals.version \o TplLastModified) + 1
    IN  SubSeq(banner, start, LineEnd(banner, start) - 1)

\* the option an options argument supplies for key, the default without one
ExpectedOption(verData, key) ==
    IF verData.t = "object" /\ key \in DOMAIN verData.fields
           /\ verData.fields[key].t = "string"
    THEN verData.fields[key].s
    ELSE DefaultOption[key]

\* the operating system's name as the banner shows it
ShownOs ==
    IF build.os = OsLinux THEN <<"L","i","n","u","x">>
    ELSE <<"D","a","r","w","i","n">>

\* C1: version() never fails outward because of the modification-time
\* lookup: however getFileModTime on the main module ends (resolved, or
\* rejected for an empty path, a remote path, a failed conversion or a failed
\* status lookup), version() resolves with a banner string.
C1_VersionAlwaysResolves ==
    IsVersion =>
        /\ last.outcome.kind = "resolved"
        /\ StartsWith(last.outcome.value, TplApplication)

\* version() has resolved although the status lookup of the main module failed
C1_Witness ==
    /\ IsVersion
    /\ last.mod.kind = "rejected"
    /\ StartsWith(last.mod.reason.message, MsgLstatFailedFor)
    /\ last.outcome.kind = "resolved"

\* C2: for every options argument (none, or any subset of the four fields),
\* version() uses the supplied string of each field that has one, the empty
\* string too, and the fixed default of each field that has none; what one
\* field gets does not depend on the others.  The banner shows these values.
C2_OptionsOverDefaults ==
    IsVersion =>
        /\ \A key \in OptionKeys : last.locals[key] = ExpectedOption(last.arg, key)
        /\ IsInfix(TplIsVersion \o ExpectedOption(last.arg, "version")
                       \o TplLastModified, last.outcome.value)
        /\ IsInfix(TplCopyright \o ExpectedOption(last.arg, "crYear") \o TplSpace
                       \o ExpectedOption(last.arg, "copyrightName") \o TplLicenses
                       \o ExpectedOption(last.arg, "licenseUrl") \o TplNextItem,
                   last.outcome.value)

\* version() was called with an empty version, a copyright holder and
\* nothing else
C2_Witness ==
    /\ IsVersion
    /\ last.arg.t = "object"
    /\ DOMAIN last.arg.fields = {"version", "copyrightName"}
    /\ last.arg.fields["version"] = JsString(<< >>)
    /\ last.arg.fields["copyrightName"] = JsString(CustomCopyrightName)
    /\ last.locals.version = << >>
    /\ last.locals.crYear = DefaultCrYear

\* C3: the string version() resolves with is the fixed template, its fields
\* in this order and each once: base filename of the main module, version,
\* the "Last modified on" value, runtime version, capitalised OS name,
\* architecture, core count, copyright year, copyright holder, license URL,
\* https://deno.land/.  The "Last modified on" value is what getFileModTime
\* resolved with, or the reason text of its rejection.
C3_BannerTemplate ==
    IsVersion =>
        last.outcome =
            Resolved(TplApplication \o basename(mainModule)
                \o TplIsVersion \o last.locals.version
                \o TplLastModified
                \o (IF last.mod.kind = "resolved" THEN last.mod.value
                    ELSE last.mod.reason.message)
                \o TplRunning \o build.deno
                \o TplOn \o ShownOs
                \o TplOpenBracket \o build.arch
                \o TplWith \o NumberToString(build.cores)
                \o TplCopyright \o last.locals.crYear
                \o TplSpace \o last.locals.copyrightName
                \o TplLicenses \o last.locals.licenseUrl
                \o TplNextItem \o DenoLandUrl \o TplEnd)

\* version() was called with a copyright year on a host whose main module
\* is remote
C3_Witness ==
    /\ IsVersion
    /\ last.mod = Rejected(NewError(MsgRemote))
    /\ last.locals.crYear = CustomCrYear
    /\ last.locals.copyrightName = DefaultCopyrightName
    /\ IsInfix(TplLastModified \o MsgRemote \o TplRunning, last.outcome.value)

\* C4: getFileModTime applies its guards in the order empty path, remote
\* scheme, file-URL conversion, status lookup.  An empty path is rejected
\* with "no file path available", a path that starts with http:// or
\* https:// with "remote execution", both without a conversion or a status
\* lookup; any other path is converted first if it is a file URL and looked
\* up after, and not looked up when the conversion fails.
C4_GuardOrder ==
    IsGetFileModTime =>
        IF Len(last.arg) = 0
        THEN last.outcome = Rejected(NewError(MsgNoFilePath)) /\ last.calls = << >>
        ELSE IF IsRemote(last.arg)
        THEN last.outcome = Rejected(NewError(MsgRemote)) /\ last.calls = << >>
        ELSE IF StartsWith(last.arg, FileScheme)
        THEN /\ Len(last.calls) \in 1..2
             /\ last.calls[1] = Call("fromFileUrl", last.arg)
             /\ Len(last.calls) = 2 => last.calls[2].service = "Deno.lstat"
        ELSE last.calls = <<Call("Deno.lstat", last.arg)>>

\* getFileModTime was called with an https:// URL
C4_Witness ==
    /\ IsGetFileModTime
    /\ last.arg = UrlHttps
    /\ last.outcome = Rejected(NewError(MsgRemote))
    /\ last.calls = << >>

\* C5: when the status lookup fails (no entry, permission denied),
\* getFileModTime is rejected with "Deno.lstat failed for <path>", <path>
\* the path handed to the lookup: the converted one, not the URL, when the
\* call was of a file URL.  No other error leaves a failed lookup.
C5_LookupFailure ==
    (IsGetFileModTime /\ LookedUp /\ lstat(fs, LookupPath).threw) =>
        /\ last.outcome = Rejected(NewError(MsgLstatFailedFor \o LookupPath))
        /\ StartsWith(last.arg, FileScheme) => LookupPath # last.arg
        /\ last.arg = UrlOdd => LookupPath = PathOdd

\* getFileModTime was called with the file URL of a path that has no entry
C5_Witness ==
    /\ IsGetFileModTime
    /\ last.arg = UrlOdd
    /\ fs[PathOdd] = Missing
    /\ last.outcome = Rejected(NewError(MsgLstatFailedFor \o PathOdd))

\* C6: when the status lookup succeeds and the status has no modification
\* time, getFileModTime is rejected with "no file modification time
\* available", as on its other failures.
C6_NoModTimeRejects ==
    (IsGetFileModTime /\ LookedUp /\ ~lstat(fs, LookupPath).threw
        /\ ~IsTruthy(lstat(fs, LookupPath).value.mtime)) =>
        /\ last.outcome.kind = "rejected"
        /\ last.outcome.reason.message = MsgNoModTime

\* C7: for every path the file system holds an entry at, getFileModTime of
\* the path's file URL succeeds with what getFileModTime of the plain path
\* gives; the URL is converted first and the one lookup is of the plain path.
C7_FileUrlAsPlainPath ==
    IsGetFileModTime =>
        \A p \in FsPaths :
            (fs[p].kind = "entry" /\ last.arg = ToFileUrl(p)) =>
                /\ last.outcome.kind = "resolved"
                /\ last.outcome = getFileModTime(p, fs).outcome
                /\ last.calls = <<Call("fromFileUrl", last.arg), Call("Deno.lstat", p)>>

\* getFileModTime was called with the file URL of "/a b%", where an entry
\* with a modification time exists
C7_Witness ==
    /\ IsGetFileModTime
    /\ last.arg = UrlOdd
    /\ fs[PathOdd] = Entry(JsDate(1756127897, 0))
    /\ last.outcome = Resolved(toUTCString(JsDate(1756127897, 0)))

C9_FirstCodeUnitOnly ==
    IsTitle =>
        IF ~isString(last.arg) \/ Len(last.arg.s) = 0
        THEN last.result = last.arg
        ELSE /\ isString(last.result)
             /\ Len(last.result.s) = Len(last.arg.s)
             /\ <<Head(last.result.s)>> = toUpperCase(<<Head(last.arg.s)>>)
             /\ Tail(last.result.s) = Tail(last.arg.s)

\* C9 as amended: toTitleCaseFirst returns a non-string or empty input as it
\* is; of a non-empty string it returns the upper-casing of the input's first
\* code unit (more than one code unit where the upper-case mapping expands,
\* "SS" for U+00DF) followed by the input's remainder as it is, and applying
\* it to its result changes nothing.
C9_UpperCasedFirstThenRemainder ==
    IsTitle =>
        IF ~isString(last.arg) \/ Len(last.arg.s) = 0
        THEN last.result = last.arg
        ELSE /\ isString(last.result)
             /\ last.result.s = toUpperCase(<<Head(last.arg.s)>>) \o Tail(last.arg.s)
             /\ toTitleCaseFirst(last.result) = last.result

\* toTitleCaseFirst was called with a string that starts with U+00DF
C9_Witness ==
    /\ IsTitle
    /\ last.arg = JsString(<<SharpS, "d", "d">>)
    /\ last.result = JsString(<<"S", "S", "d", "d">>)

\* C10: in every banner the "Last modified on" value is the UTC timestamp of
\* a successful status lookup of the main module, or a text that begins with
\* "UNKNOWN", however getFileModTime ended.
C10_TimestampOrUnknown ==
    IsVersion =>
        \/ StartsWith(ShownModTime, Unknown)
        \/ /\ LookedUp
           /\ ~lstat(fs, LookupPath).threw
           /\ IsTruthy(lstat(fs, LookupPath).value.mtime)
           /\ ShownModTime = toUTCString(lstat(fs, LookupPath).value.mtime)

====
